---- MODULE Spec2Model ----
(* A model of the lp50xx driver (src/src/lib.rs): the address codec, the   *)
(* model table, the dual transport write path, the lifecycle operations,   *)
(* and the colour / monochromatic channel-set operations.                  *)
EXTENDS Integers, Sequences, FiniteSets, TLC

VARIABLES
    interface,              \* TRUE iff interface = Some(i2c)
    transfer_callback,      \* TRUE iff transfer_callback = Some(callback)
    enable,                 \* level of the enable line: "low", "high" or "unknown"
    continuous_addressing,  \* the continuous addressing flag
    active_address,         \* the active chip address
    mode,                   \* the MODE type parameter, or "Released"
    model,                  \* the device variant
    brightness_factor,      \* the f32 nearest to brightness_factor / 100
    overflow_checks,        \* build profile: TRUE iff integer overflow panics
    call,                   \* the last call: operation and arguments
    events,                 \* what the last call did to the pin, the delay and the transport
    result,                 \* how the last call ended
    ret,                    \* the value the last call returned, if any
    enable_sent,            \* TRUE iff an enable frame has reached the transport
    input                   \* the arguments the caller passes: led, value, factor

vars == <<interface, transfer_callback, enable, continuous_addressing,
          active_address, mode, model, brightness_factor, overflow_checks,
          call, events, result, ret, enable_sent, input>>

handle == <<interface, transfer_callback, enable, continuous_addressing,
            active_address, mode, model, brightness_factor>>

----------------------------------------------------------------------------
(* Bounds of the model *)

MaxLed == 4           \* channel / LED indices of the lifecycle specification
MaxSelector == 4      \* selectors of Independent addresses: 0..MaxSelector
MaxFactor == 101      \* brightness factors passed in, in hundredths

(* Program constants *)

U8Max == 255
BaseAddress == 20         \* 0b00010100
BroadcastAddress == 12    \* 0b0001100
LedBaseAddress == 11      \* 0x0B
BrightBaseAddress == 7    \* 0x07
ResetRegister == 23       \* 0x17
EnableRegister == 0       \* 0x00
ConfigRegister == 1       \* 0x01
EnableValue == 64         \* 0b01000000
ResetValue == 255         \* 0xff
DefaultFactor == 100      \* 1.0
MinFactor == 1            \* 0.01

U8 == 0..U8Max
Models == {"LP5009", "LP5012"}
Broadcast == [kind |-> "Broadcast", sel |-> 0]
Independent(s) == [kind |-> "Independent", sel |-> s]
Addresses == {Broadcast} \cup {Independent(s) : s \in 0..MaxSelector}

----------------------------------------------------------------------------
(* Integer helpers *)

RECURSIVE Pow2Rec(_)
Pow2Rec(n) == IF n = 0 THEN 1 ELSE 2 * Pow2Rec(n - 1)
Pow2Table == [n \in 0..30 |-> Pow2Rec(n)]
Pow2(n) == Pow2Table[n]

RECURSIVE BitOrN(_, _, _)
BitOrN(a, b, n) ==
    IF n = 0 THEN 0
    ELSE (IF a % 2 = 1 \/ b % 2 = 1 THEN 1 ELSE 0)
         + 2 * BitOrN(a \div 2, b \div 2, n - 1)

BitOr(a, b) == BitOrN(a, b, 8)

RECURSIVE BitLen(_)
BitLen(n) == IF n = 0 THEN 0 ELSE 1 + BitLen(n \div 2)

----------------------------------------------------------------------------
(* Model table and address codec *)

GetPinCount(m) == IF m = "LP5009" THEN 9 ELSE 12

IntoU8Panics(addr) == addr.kind = "Independent" /\ addr.sel > 3

IntoU8BroadcastBase(addr) ==
    IF addr.kind = "Independent" THEN BitOr(BroadcastAddress, addr.sel)
    ELSE BroadcastAddress

IntoU8(addr) ==
    IF addr.kind = "Independent" THEN BitOr(BaseAddress, addr.sel)
    ELSE BroadcastAddress

GetLedAddressOffsetExclusive(led_index, m) ==
    LET length == GetPinCount(m) IN
    IF led_index < length THEN 0
    ELSE IF led_index >= length /\ led_index < length * 2 THEN 1
    ELSE 2

GetLedAddressOffset(led_index, m) ==
    LET length == GetPinCount(m) IN
    IF led_index <= length THEN 0
    ELSE IF led_index > length /\ led_index <= length * 2 THEN 1
    ELSE 2

----------------------------------------------------------------------------
(* f32 arithmetic.  A positive f32 is a pair [m, k] standing for m * 2^-k  *)
(* with a 24 bit significand 2^23 <= m < 2^24.                             *)

RoundHalfEven(q, rem, half) ==
    IF rem > half \/ (rem = half /\ q % 2 = 1) THEN q + 1 ELSE q

(* The exponent k that puts h * 2^k / 100 in [2^23, 2^24) *)
RECURSIVE NormExp(_, _)
NormExp(h, e) ==
    IF h * Pow2(e) >= 100 * Pow2(23) THEN e ELSE NormExp(h, e + 1)

(* The f32 nearest to h / 100, the value of the f32 literal or argument.   *)
F32OfHundredths(h) ==
    LET k == NormExp(h, 0)
        num == h * Pow2(k)
        m == RoundHalfEven(num \div 100, 2 * (num % 100), 100)
    IN IF m = Pow2(24) THEN [m |-> Pow2(23), k |-> k - 1] ELSE [m |-> m, k |-> k]

(* value as f32 * factor, rounded to f32: [m, k] standing for m * 2^-k.    *)
(* The exact product value * f.m is kept as hi * 256 + lo.                 *)
F32MulU8(value, f) ==
    LET a == value * (f.m \div 256)
        b == value * (f.m % 256)
        hi == a + (b \div 256)
        lo == b % 256
        d == IF BitLen(hi) > 16 THEN BitLen(hi) - 16 ELSE 0
        q == hi * Pow2(8 - d) + (lo \div Pow2(d))
        rem == lo % Pow2(d)
    IN [m |-> RoundHalfEven(q, 2 * rem, Pow2(d)), k |-> f.k - d]

F32AsU8Rounded(x) ==
    LET t == RoundHalfEven(x.m \div Pow2(x.k), 2 * (x.m % Pow2(x.k)), Pow2(x.k))
    IN IF t > U8Max THEN U8Max ELSE t

(* The cast `as u8` of a non-negative f32: truncates and saturates. *)
F32AsU8(x) ==
    LET t == x.m \div Pow2(x.k) IN IF t > U8Max THEN U8Max ELSE t

ScaleValue(value, factor) == F32AsU8(F32MulU8(value, F32OfHundredths(factor)))

ClampFactor(factor) ==
    IF factor < MinFactor THEN MinFactor
    ELSE IF factor > DefaultFactor THEN DefaultFactor
    ELSE factor

----------------------------------------------------------------------------
(* Events of a call, in the order the call makes them *)

PinEvent(level, ok) ==
    [kind |-> level, addr |-> Broadcast, wire |-> 0, data |-> <<>>, ok |-> ok]
DelayEvent(ms) ==
    [kind |-> "delay_ms", addr |-> Broadcast, wire |-> ms, data |-> <<>>, ok |-> TRUE]
I2cEvent(addr, data, ok) ==
    [kind |-> "i2c", addr |-> addr, wire |-> IntoU8(addr), data |-> data, ok |-> ok]
CallbackEvent(addr, data) ==
    [kind |-> "callback", addr |-> addr, wire |-> 0, data |-> data, ok |-> TRUE]

IsFrame(e) == e.kind \in {"i2c", "callback"}
Frames(evs) == SelectSeq(evs, IsFrame)

(* LP50xx::write: the blocking interface first, then the callback *)
Write(addr, data, ok) ==
    IF interface
    THEN IF IntoU8Panics(addr)
         THEN [events |-> <<>>, result |-> "panic"]
         ELSE [events |-> <<I2cEvent(addr, data, ok)>>,
               result |-> IF ok THEN "Ok" ELSE "CommError"]
    ELSE IF transfer_callback
    THEN [events |-> <<CallbackEvent(addr, data)>>, result |-> "Ok"]
    ELSE [events |-> <<>>, result |-> "NoInterfaceDefined"]

----------------------------------------------------------------------------
(* The state after init_with_i2c or init_with_callback.  The constructor   *)
(* drives the enable line low and ignores a failure to do so.              *)

NoCall(op) == [op |-> op, led |-> 0, val |-> <<>>]

Constructed ==
    /\ interface \in BOOLEAN
    /\ transfer_callback = ~interface
    /\ \E ok \in BOOLEAN :
        /\ enable = IF ok THEN "low" ELSE "unknown"
        /\ events = <<PinEvent("set_low", ok)>>
    /\ continuous_addressing = TRUE
    /\ active_address = Broadcast
    /\ mode = "DefaultMode"
    /\ model \in Models
    /\ brightness_factor = DefaultFactor
    /\ overflow_checks \in BOOLEAN
    /\ call = NoCall(IF interface THEN "init_with_i2c" ELSE "init_with_callback")
    /\ result = "Ok"
    /\ ret = <<>>
    /\ enable_sent = FALSE

(* A panic aborts the program; release consumes the handle. *)
Live == result # "panic" /\ mode # "Released"

Returns(c, evs, res, r) ==
    /\ call' = c
    /\ events' = evs
    /\ result' = res
    /\ ret' = r

----------------------------------------------------------------------------
(* impl LP50xx<DefaultMode, I2C, EN> *)

SetContinuousAddressing(state) ==
    /\ Live /\ mode = "DefaultMode"
    /\ continuous_addressing' = state
    /\ Returns(NoCall("set_continuous_addressing"), <<>>, "Ok", <<>>)
    /\ UNCHANGED <<interface, transfer_callback, enable, active_address, mode,
                   model, brightness_factor, overflow_checks, enable_sent, input>>

SetActiveAddress(address) ==
    /\ Live /\ mode = "DefaultMode"
    /\ active_address' = address
    /\ Returns(NoCall("set_active_address"), <<>>, "Ok", <<>>)
    /\ UNCHANGED <<interface, transfer_callback, enable, continuous_addressing,
                   mode, model, brightness_factor, overflow_checks, enable_sent, input>>

Release ==
    /\ Live /\ mode = "DefaultMode"
    /\ mode' = "Released"
    /\ Returns(NoCall("release"), <<>>, "Ok", <<>>)
    /\ UNCHANGED <<interface, transfer_callback, enable, continuous_addressing,
                   active_address, model, brightness_factor, overflow_checks,
                   enable_sent, input>>

----------------------------------------------------------------------------
(* impl LP50xx<MODE, I2C, EN> *)

IntoMode(mode2, op) ==
    /\ Live
    /\ mode' = mode2
    /\ brightness_factor' = DefaultFactor
    /\ Returns(NoCall(op), <<>>, "Ok", <<>>)
    /\ UNCHANGED <<interface, transfer_callback, enable, continuous_addressing,
                   active_address, model, overflow_checks, enable_sent, input>>

IntoColorMode == IntoMode("ColorMode", "into_color_mode")

IntoMonochromaticMode == IntoMode("MonochromaticMode", "into_monochromatic_mode")

ResetOutcome(wrOk, lowOk, highOk) ==
    LET w == Write(Broadcast, <<ResetRegister, ResetValue>>, wrOk)
        low == w.events \o <<DelayEvent(1), PinEvent("set_low", lowOk)>>
        high == low \o <<DelayEvent(10), PinEvent("set_high", highOk)>>
    IN IF w.result # "Ok"
       THEN [events |-> w.events, result |-> w.result, enable |-> enable]
       ELSE IF ~lowOk
       THEN [events |-> low, result |-> "EnableLine", enable |-> enable]
       ELSE IF ~highOk
       THEN [events |-> high, result |-> "EnableLine", enable |-> "low"]
       ELSE [events |-> high \o <<DelayEvent(10)>>, result |-> "Ok",
             enable |-> "high"]

Reset(wrOk, lowOk, highOk) ==
    LET o == ResetOutcome(wrOk, lowOk, highOk) IN
    /\ Live
    /\ enable' = o.enable
    /\ Returns(NoCall("reset"), o.events, o.result, <<>>)
    /\ UNCHANGED <<interface, transfer_callback, continuous_addressing,
                   active_address, mode, model, brightness_factor,
                   overflow_checks, enable_sent, input>>

EnableOutcomeWriteFirst(lowOk, highOk, wrOk) ==
    LET w == Write(Broadcast, <<EnableRegister, EnableValue>>, wrOk)
        low == w.events \o <<PinEvent("set_low", lowOk)>>
        high == low \o <<DelayEvent(1), PinEvent("set_high", highOk)>>
    IN IF w.result # "Ok"
       THEN [events |-> w.events, result |-> w.result, enable |-> enable]
       ELSE IF ~lowOk
       THEN [events |-> low, result |-> "EnableLine", enable |-> enable]
       ELSE IF ~highOk
       THEN [events |-> high, result |-> "EnableLine", enable |-> "low"]
       ELSE [events |-> high \o <<DelayEvent(10)>>, result |-> "Ok",
             enable |-> "high"]

EnableOutcome(lowOk, highOk, wrOk) ==
    LET low == <<PinEvent("set_low", lowOk)>>
        high == low \o <<DelayEvent(1), PinEvent("set_high", highOk)>>
        w == Write(Broadcast, <<EnableRegister, EnableValue>>, wrOk)
    IN IF ~lowOk
       THEN [events |-> low, result |-> "EnableLine", enable |-> enable]
       ELSE IF ~highOk
       THEN [events |-> high, result |-> "EnableLine", enable |-> "low"]
       ELSE [events |-> high \o <<DelayEvent(10)>> \o w.events,
             result |-> w.result, enable |-> "high"]

Enable(lowOk, highOk, wrOk) ==
    LET o == EnableOutcome(lowOk, highOk, wrOk) IN
    /\ Live
    /\ enable' = o.enable
    /\ enable_sent' = (enable_sent \/ o.result = "Ok")
    /\ Returns(NoCall("enable"), o.events, o.result, <<>>)
    /\ UNCHANGED <<interface, transfer_callback, continuous_addressing,
                   active_address, mode, model, brightness_factor,
                   overflow_checks, input>>

Bit(b, n) == IF b THEN Pow2(n) ELSE 0

ConfigureValue(log_scale, power_save, auto_incr, pwm_dithering, max_current_option, global_off) ==
    BitOr(BitOr(BitOr(Bit(log_scale, 5), Bit(power_save, 4)),
                BitOr(Bit(auto_incr, 3), Bit(pwm_dithering, 2))),
          BitOr(Bit(max_current_option, 1), Bit(global_off, 0)))

ConfigureWhenEnabled(f, wrOk) ==
    LET value == ConfigureValue(f[1], f[2], f[3], f[4], f[5], f[6])
        w == IF enable_sent
             THEN Write(Broadcast, <<ConfigRegister, value>>, wrOk)
             ELSE [events |-> <<>>, result |-> "NoInterfaceDefined"]
    IN
    /\ Live
    /\ Returns([op |-> "configure", led |-> 0, val |-> <<value>>],
               w.events, w.result, <<>>)
    /\ UNCHANGED <<handle, overflow_checks, enable_sent, input>>

Configure(f, wrOk) ==
    LET value == ConfigureValue(f[1], f[2], f[3], f[4], f[5], f[6])
        w == Write(Broadcast, <<ConfigRegister, value>>, wrOk)
    IN
    /\ Live
    /\ Returns([op |-> "configure", led |-> 0, val |-> <<value>>],
               w.events, w.result, <<>>)
    /\ UNCHANGED <<handle, overflow_checks, enable_sent, input>>

----------------------------------------------------------------------------
(* impl LP50xx<ColorMode, I2C, EN> *)

(* u8 addition and multiplication: [v, of], of = TRUE iff it overflowed *)
AddU8(a, b) == [v |-> (a + b) % (U8Max + 1), of |-> (a + b > U8Max)]
MulU8(a, b) == [v |-> (a * b) % (U8Max + 1), of |-> (a * b > U8Max)]

ColorSetOutcomeNoStop(channel0, p, ok1, ok2) ==
    LET channel == channel0 - 1
        bright_addr == AddU8(BrightBaseAddress, channel)
        times3 == MulU8(channel, 3)
        color_addr == AddU8(LedBaseAddress, times3.v)
        w1 == Write(active_address, <<bright_addr.v, p[1]>>, ok1)
        w2 == Write(active_address, <<color_addr.v, p[2], p[3], p[4]>>, ok2)
    IN IF channel0 < 1
       THEN [events |-> <<>>, result |-> "panic"]
       ELSE IF overflow_checks /\ (bright_addr.of \/ times3.of \/ color_addr.of)
       THEN [events |-> <<>>, result |-> "panic"]
       ELSE IF w1.result = "panic"
       THEN w1
       ELSE [events |-> w1.events \o w2.events, result |-> w2.result]

ColorSetOutcome(channel0, p, ok1, ok2) ==
    LET channel == channel0 - 1
        bright_addr == AddU8(BrightBaseAddress, channel)
        times3 == MulU8(channel, 3)
        color_addr == AddU8(LedBaseAddress, times3.v)
        w1 == Write(active_address, <<bright_addr.v, p[1]>>, ok1)
        w2 == Write(active_address, <<color_addr.v, p[2], p[3], p[4]>>, ok2)
    IN IF channel0 < 1
       THEN [events |-> <<>>, result |-> "panic"]
       ELSE IF overflow_checks /\ (bright_addr.of \/ times3.of \/ color_addr.of)
       THEN [events |-> <<>>, result |-> "panic"]
       ELSE IF w1.result # "Ok"
       THEN w1
       ELSE [events |-> w1.events \o w2.events, result |-> w2.result]

ColorSet(channel, p, ok1, ok2) ==
    LET o == ColorSetOutcome(channel, p, ok1, ok2) IN
    /\ Live /\ mode = "ColorMode"
    /\ Returns([op |-> "color_set", led |-> channel, val |-> p],
               o.events, o.result, <<>>)
    /\ UNCHANGED <<handle, overflow_checks, enable_sent, input>>

----------------------------------------------------------------------------
(* impl LP50xx<MonochromaticMode, I2C, EN> *)

SetBrightnessFactor(factor) ==
    /\ Live /\ mode = "MonochromaticMode"
    /\ brightness_factor' = ClampFactor(factor)
    /\ Returns([op |-> "set_brightness_factor", led |-> 0, val |-> <<factor>>],
               <<>>, "Ok", <<>>)
    /\ UNCHANGED <<interface, transfer_callback, enable, continuous_addressing,
                   active_address, mode, model, overflow_checks, enable_sent, input>>

BrightnessFactor ==
    /\ Live /\ mode = "MonochromaticMode"
    /\ Returns(NoCall("brightness_factor"), <<>>, "Ok", <<brightness_factor>>)
    /\ UNCHANGED <<handle, overflow_checks, enable_sent, input>>

ResolveLedRaw(led) ==
    IF continuous_addressing
    THEN [address |-> Independent(GetLedAddressOffset(led, model)),
          pin_offset |-> led]
    ELSE [address |-> active_address, pin_offset |-> led]

(* The chip and the pin offset that set resolves for a LED *)
ResolveLed(led) ==
    IF continuous_addressing
    THEN LET addr_offset == GetLedAddressOffset(led, model) IN
         [address |-> Independent(addr_offset),
          pin_offset |-> led - addr_offset * GetPinCount(model)]
    ELSE [address |-> active_address, pin_offset |-> led]

MonoSetOutcome(led, value, ok) ==
    LET r == ResolveLed(led)
        scaled == ScaleValue(value, brightness_factor)
        reg == AddU8(LedBaseAddress, r.pin_offset - 1)
    IN IF led = 0
       THEN [events |-> <<>>, result |-> "panic"]
       ELSE IF ~continuous_addressing /\ led > GetPinCount(model)
       THEN [events |-> <<>>, result |-> "panic"]
       ELSE IF overflow_checks /\ reg.of
       THEN [events |-> <<>>, result |-> "panic"]
       ELSE Write(r.address, <<reg.v, scaled>>, ok)

MonoSet(led, value, ok) ==
    LET o == MonoSetOutcome(led, value, ok) IN
    /\ Live /\ mode = "MonochromaticMode"
    /\ Returns([op |-> "mono_set", led |-> led, val |-> <<value>>],
               o.events, o.result, <<>>)
    /\ UNCHANGED <<handle, overflow_checks, enable_sent, input>>

----------------------------------------------------------------------------
(* Direct calls of the two pure functions: Address::into_u8 is public,     *)
(* get_led_address_offset is called by tests::correct_led_address_offset.  *)

IntoU8Call(addr) ==
    /\ Live
    /\ Returns([op |-> "into_u8", led |-> 0,
                val |-> IF addr.kind = "Independent" THEN <<addr.sel>> ELSE <<>>],
               <<>>,
               IF IntoU8Panics(addr) THEN "panic" ELSE "Ok",
               IF IntoU8Panics(addr) THEN <<>> ELSE <<IntoU8(addr)>>)
    /\ UNCHANGED <<handle, overflow_checks, enable_sent, input>>

GetLedAddressOffsetCall(led_index, m) ==
    /\ Live
    /\ Returns([op |-> "get_led_address_offset", led |-> led_index,
                val |-> <<GetPinCount(m)>>],
               <<>>, "Ok", <<GetLedAddressOffset(led_index, m)>>)
    /\ UNCHANGED <<handle, overflow_checks, enable_sent, input>>

----------------------------------------------------------------------------
(* Inputs *)

Leds == 0..MaxLed
Payload == <<128, 10, 20, 30>>
Flags == {f \in [1..6 -> BOOLEAN] : Cardinality({i \in 1..6 : f[i]}) \in {0, 1, 6}}

(* The lifecycle and the channel-set calls, on small indices *)
Init ==
    /\ Constructed
    /\ input \in [led : Leds, value : {200}, factor : {50}]

Next ==
    \/ Release
    \/ IntoColorMode
    \/ IntoMonochromaticMode
    \/ \E wrOk, lowOk, highOk \in BOOLEAN : Reset(wrOk, lowOk, highOk)
    \/ \E lowOk, highOk, wrOk \in BOOLEAN : Enable(lowOk, highOk, wrOk)
    \/ \E f \in Flags, wrOk \in BOOLEAN : Configure(f, wrOk)
    \/ \E ok1, ok2 \in BOOLEAN : ColorSet(input.led, Payload, ok1, ok2)
    \/ \E ok \in BOOLEAN : MonoSet(input.led, input.value, ok)

Spec == Init /\ [][Next]_vars

(* The addressing configuration and the channel-set calls, on every u8 index *)
InitSet ==
    /\ Constructed
    /\ enable = "low"
    /\ input \in [led : U8, value : {200}, factor : {50}]

NextSet ==
    \/ \E state \in BOOLEAN : SetContinuousAddressing(state)
    \/ \E address \in Addresses : SetActiveAddress(address)
    \/ IntoColorMode
    \/ IntoMonochromaticMode
    \/ ColorSet(input.led, Payload, TRUE, TRUE)
    \/ \E ok \in BOOLEAN : MonoSet(input.led, input.value, ok)

SpecSet == InitSet /\ [][NextSet]_vars

(* Monochromatic scaling, on every value and every factor *)
InitScale ==
    /\ Constructed
    /\ interface /\ enable = "low" /\ model = "LP5012" /\ overflow_checks
    /\ input \in [led : {1}, value : U8, factor : 0..MaxFactor]

NextScale ==
    \/ IntoMonochromaticMode
    \/ SetBrightnessFactor(input.factor)
    \/ BrightnessFactor
    \/ MonoSet(input.led, input.value, TRUE)

SpecScale == InitScale /\ [][NextScale]_vars

(* The pure functions, on every input *)
InitPure ==
    /\ Constructed
    /\ interface /\ enable = "low" /\ model = "LP5012" /\ overflow_checks
    /\ input = [led |-> 1, value |-> 200, factor |-> 50]

NextPure ==
    \/ \E addr \in Addresses : IntoU8Call(addr)
    \/ \E led_index \in U8, m \in Models : GetLedAddressOffsetCall(led_index, m)

SpecPure == InitPure /\ [][NextPure]_vars

----------------------------------------------------------------------------
(* Properties *)

IsPinOrFrame(e) == e.kind # "delay_ms"
Steps(evs) == SelectSeq(evs, IsPinOrFrame)

(* C1: for n = 9 and n = 12 and every LED index in 1..255,               *)
(* get_led_address_offset returns 0 when index <= n, 1 when n < index    *)
(* <= 2n, and 2 when index > 2n.                                         *)
C1_OffsetByRange ==
    (call.op = "get_led_address_offset" /\ call.led >= 1) =>
        LET n == call.val[1] IN
        /\ n \in {9, 12}
        /\ result = "Ok"
        /\ (call.led <= n => ret = <<0>>)
        /\ (n < call.led /\ call.led <= 2 * n => ret = <<1>>)
        /\ (call.led > 2 * n => ret = <<2>>)

C1_Witness ==
    /\ call.op = "get_led_address_offset"
    /\ call.led = 24 /\ call.val = <<12>> /\ ret = <<1>>

(* C2: a monochromatic set that is not rejected writes exactly one frame, *)
(* to the resolved chip at register 0x0B + (pin_offset - 1): under        *)
(* continuous addressing the chip is Independent(offset), offset the      *)
(* resolver's result, and pin_offset = led - offset * n; otherwise the    *)
(* chip is the active address and pin_offset = led, and led > n is        *)
(* rejected before any write.                                             *)
C2_MonoSetOneFrame ==
    call.op = "mono_set" =>
        LET led == call.led
            n == GetPinCount(model)
            offset == GetLedAddressOffset(led, model)
        IN IF led = 0 \/ (~continuous_addressing /\ led > n)
           THEN result = "panic" /\ events = <<>>
           ELSE IF result = "panic"
           THEN /\ events = <<>>
                /\ interface /\ ~continuous_addressing
                /\ IntoU8Panics(active_address)
           ELSE /\ Len(events) = 1
                /\ IsFrame(events[1])
                /\ Len(events[1].data) = 2
                /\ IF continuous_addressing
                   THEN /\ events[1].addr = Independent(offset)
                        /\ events[1].data[1] = 11 + (led - offset * n) - 1
                   ELSE /\ events[1].addr = active_address
                        /\ events[1].data[1] = 11 + led - 1

C2_Witness ==
    /\ call.op = "mono_set" /\ call.led = 13 /\ model = "LP5012"
    /\ continuous_addressing
    /\ Len(events) = 1
    /\ events[1].addr = Independent(1) /\ events[1].data[1] = 11

(* C3: Independent(selector).into_u8() is base | selector for selector    *)
(* in 0..3, Broadcast.into_u8() is a constant different from those four,  *)
(* and a selector greater than 3 panics instead of yielding an address.   *)
C3_AddressEncoding ==
    call.op = "into_u8" =>
        IF call.val = <<>>
        THEN /\ result = "Ok"
             /\ ret = <<12>>
             /\ \A s \in 0..3 : <<IntoU8(Independent(s))>> # ret
        ELSE IF call.val[1] <= 3
        THEN /\ result = "Ok"
             /\ Len(ret) = 1
             /\ ret[1] \div 4 = 5
             /\ ret[1] % 4 = call.val[1]
        ELSE result = "panic" /\ ret = <<>>

C3_Witness ==
    call.op = "into_u8" /\ call.val = <<3>> /\ ret = <<23>>

(* C4: a color-mode set with channel >= 1 and a working transport emits   *)
(* exactly two frames to the active address, [0x07 + i, brightness] then  *)
(* [0x0B + 3 * i, r, g, b], where i = channel - 1.                         *)
C4_ColorSetTwoFrames ==
    (/\ call.op = "color_set" /\ call.led >= 1
     /\ ~(interface /\ IntoU8Panics(active_address))) =>
        LET i == call.led - 1 IN
        /\ Len(events) = 2
        /\ events[1].addr = active_address
        /\ events[1].data = <<7 + i, call.val[1]>>
        /\ events[2].addr = active_address
        /\ events[2].data = <<11 + 3 * i, call.val[2], call.val[3], call.val[4]>>

(* C5 as stated: the byte written by monochromatic set is                 *)
(* round(value * brightness_scale).                                        *)
C5_ByteRounded ==
    (call.op = "mono_set" /\ result = "Ok") =>
        events[1].data[2] = (call.val[1] * brightness_factor + 50) \div 100

(* C5 as amended: the byte written by monochromatic set is the f32        *)
(* product value * brightness_scale truncated toward zero: it is          *)
(* floor(value * h / 100), or one less when value * h / 100 is a whole    *)
(* number that the f32 product falls just short of.                       *)
C5_ByteTruncated ==
    (call.op = "mono_set" /\ result = "Ok") =>
        LET byte == events[1].data[2]
            p == call.val[1] * brightness_factor
        IN /\ byte <= p \div 100
           /\ byte >= (p \div 100) - 1
           /\ (p % 100 # 0 => byte = p \div 100)
           /\ (brightness_factor \in {25, 50, 75, 100} => byte = p \div 100)

C5_Witness ==
    /\ call.op = "mono_set" /\ result = "Ok"
    /\ call.val = <<3>> /\ brightness_factor = 50
    /\ events[1].data[2] = 1

(* C6 as stated: no configure frame and no channel-set frame reaches the  *)
(* transport before enable() has written the enable frame.                *)
C6_EnableFirst ==
    (call.op \in {"configure", "color_set", "mono_set"} /\ Frames(events) # <<>>)
        => enable_sent

(* C6 as amended: the driver keeps no record of enable(); a successful    *)
(* enable() ends with the enable frame, and configure hands its frame     *)
(* [0x01, bits] to the transport whether or not enable() has run.         *)
C6_EnableIsPrecondition ==
    /\ (call.op = "enable" /\ result = "Ok") =>
           /\ enable_sent
           /\ events[Len(events)].data = <<0, 64>>
    /\ call.op = "configure" =>
           /\ Len(events) = 1
           /\ IsFrame(events[1])
           /\ events[1].addr = Broadcast
           /\ events[1].data = <<1, call.val[1]>>

C6_Witness ==
    /\ call.op = "configure" /\ ~enable_sent
    /\ Len(events) = 1 /\ events[1].data = <<1, 63>>

(* C8: in color-mode set over the blocking transport a failed write is    *)
(* returned at once as CommError: a failed brightness write is the only   *)
(* frame, a failed RGB write follows exactly one brightness frame, and    *)
(* nothing is written after the failure.                                  *)
C8_ColorSetStopsAtFailure ==
    (call.op = "color_set" /\ interface /\ events # <<>>) =>
        LET i == call.led - 1 IN
        /\ events[1].data = <<7 + i, call.val[1]>>
        /\ ~events[1].ok => (Len(events) = 1 /\ result = "CommError")
        /\ events[1].ok =>
               /\ Len(events) = 2
               /\ events[2].data[1] = 11 + 3 * i
               /\ result = IF events[2].ok THEN "Ok" ELSE "CommError"

C8_Witness ==
    /\ call.op = "color_set" /\ interface
    /\ Len(events) = 2 /\ events[1].ok /\ ~events[2].ok
    /\ result = "CommError"

(* C9: enable() drives the enable line low, then high, then writes        *)
(* [0x00, 0b01000000] to broadcast; reset() writes [0x17, 0xFF] to        *)
(* broadcast, then drives the line low, then high; each stops at its      *)
(* first failure and returns it.                                          *)
C9_LifecycleOrder ==
    LET st == Steps(events) IN
    /\ call.op = "enable" =>
           /\ st[1].kind = "set_low"
           /\ ~st[1].ok => (Len(st) = 1 /\ result = "EnableLine")
           /\ st[1].ok =>
                  /\ st[2].kind = "set_high"
                  /\ ~st[2].ok => (Len(st) = 2 /\ result = "EnableLine")
                  /\ st[2].ok =>
                         /\ Len(st) = 3
                         /\ IsFrame(st[3])
                         /\ st[3].addr = Broadcast
                         /\ st[3].data = <<0, 64>>
                         /\ result = IF st[3].ok THEN "Ok" ELSE "CommError"
    /\ call.op = "reset" =>
           /\ IsFrame(st[1])
           /\ st[1].addr = Broadcast
           /\ st[1].data = <<23, 255>>
           /\ ~st[1].ok => (Len(st) = 1 /\ result = "CommError")
           /\ st[1].ok =>
                  /\ st[2].kind = "set_low"
                  /\ ~st[2].ok => (Len(st) = 2 /\ result = "EnableLine")
                  /\ st[2].ok =>
                         /\ Len(st) = 3
                         /\ st[3].kind = "set_high"
                         /\ result = IF st[3].ok THEN "Ok" ELSE "EnableLine"

C9_Witness ==
    /\ call.op = "enable" /\ result = "EnableLine"
    /\ Len(Steps(events)) = 2 /\ Frames(events) = <<>>

(* C10: every frame of a color or monochromatic set that is not rejected  *)
(* has its register byte in 0x07..0x16.                                   *)
C10_InsideLedBlock ==
    call.op \in {"color_set", "mono_set"} =>
        \A k \in 1..Len(events) : events[k].data[1] \in 7..22

====
